---- MODULE Spec2Model ----
(***************************************************************************)
(* TemperatureAlert (temperature_alert/lib/temperature_alert.py): the      *)
(* monitoring engine, its background poll loop(s) and the caller's         *)
(* start / stop / status calls.                                            *)
(*                                                                         *)
(* Temperatures are integers, in tenths of a degree Celsius (295 is 29.5); *)
(* times are integers (seconds of time.time()).  An Optional[float] is a   *)
(* sequence: <<>> is None and <<v>> is the value v.                        *)
(***************************************************************************)
EXTENDS Integers, Sequences, FiniteSets

\* ---------------------------------------------------------------- bounds
\* Poll cycles that may begin in one run of the model.
MaxCycles == 3
\* The last second the clock reaches.
MaxTime == 2

\* ------------------------------------------------------ program constants
\* AlertConfig of the engine under study, in tenths of a degree: threshold
\* 30.0, hysteresis 1.0 and rate_of_change_threshold 60.0 per minute.
Threshold == 300
Hysteresis == 10
RateThreshold == 600
\* len(self._history) > 100
HistoryCap == 100
\* time_diff / 60
SecondsPerMinute == 60

\* ------------------------------------------------------------ input sets
\* What the sensor can return: 0.0 (below the dead band, and falsy in
\* Python), 29.0 (threshold - hysteresis, the lowest reading of the dead
\* band) and 30.0 (the threshold, the lowest reading that engages the alarm).
Temps == {0, 290, 300}
\* time.time() at construction, and the seconds that may pass between two
\* readings of the clock.
StartTimes == {1}
Elapsed == {0, 1}
\* The readings of the hysteresis scenario, 28.0, 31.0, 29.5 and 28.9, in the
\* order the sensor returns them there, and as the set a sensor returning
\* them in any order draws from.
Scenario == <<280, 310, 295, 289>>
ScenarioTemps == {Scenario[i] : i \in 1..Len(Scenario)}
\* The `duration` arguments start() is called with.
Durations == {0, 1}
\* The poll threads that can exist: start() after a stop() whose join timed
\* out leaves the earlier thread alive next to the new one.
Threads == {1, 2}

\* _create_sensor and _create_notifier: the types they know.
SensorTypes == {"file", "http", "mqtt", "gpio"}
NotificationTypes == {"telegram", "discord", "webhook"}
\* The types an engine may be constructed with: the known ones and one that
\* neither factory knows.
SensorTypeArgs == SensorTypes \cup {"serial"}
NotificationTypeArgs == NotificationTypes \cup {"email"}
\* The configuration of the engine under study: a file sensor and a webhook.
TestConfig == [sensor_type |-> "file", notification_type |-> "webhook"]

None == <<>>
Some(v) == <<v>>

\* Python truthiness of an Optional[float]: None and 0.0 are false.
Truthy(o) == o # None /\ o[1] # 0

Abs(x) == IF x < 0 THEN -x ELSE x

\* Positions of a poll thread inside _monitor_loop that belong to a cycle
\* (after the while test passed, before the sleep).
CyclePcs == {"read", "store", "append", "trim", "rate", "check", "notify",
             "update", "stamp"}

VARIABLES
    running,          \* self._running
    thread,           \* self._thread: 0 is None, else the thread's number
    current_temp,     \* self._current_temp
    alert_active,     \* self._alert_active
    last_temp,        \* self._last_temp
    last_check_time,  \* self._last_check_time
    history,          \* self._history
    now,              \* the latest value time.time() returned
    pc,               \* per thread: position in _monitor_loop
    temperature,      \* per thread: local `temperature` of _monitor_loop
    alert,            \* per thread: local `alert` of _monitor_loop
    sent,             \* per thread: notifier.send calls of the current cycle
    outcome,          \* per thread: how the current cycle's read ended
    cpc,              \* caller: position in start / stop / status
    snap,             \* caller: the dict status() is building
    result,           \* caller: what the last call returned
    log,              \* caller: last line logged by start / stop
    config,           \* the sensor_type and notification_type constructed with
    cycles,           \* number of poll cycles begun since the initial state
    stopped,          \* stop() has returned and start() has not run since
    stopRequested,    \* per thread: stop() has been called since it was created
    inflight,         \* per thread: its cycle was in flight at the last stop()
    resetPending,     \* a cycle with an absent reading ended, no reading since
    fresh,            \* per thread: its cycle is the first after such a cycle
    statusCycle,      \* value of `cycles` when the last status() was called
    cycleStart,       \* status fields as they were when the latest cycle began
    reads             \* the readings the sensor has returned, in read order

engine == <<running, thread, current_temp, alert_active, last_temp,
            last_check_time, history>>
loopv  == <<pc, temperature, alert, sent, outcome>>
callv  == <<cpc, snap, result, log, config>>
ghostv == <<cycles, stopped, stopRequested, inflight, resetPending,
            fresh>>
obsv   == <<statusCycle, cycleStart, reads>>
vars   == <<engine, now, loopv, callv, ghostv, obsv>>

\* ------------------------------------------------------------ status()
\* 'last_check': isoformat of the timestamp, or None when it is falsy.
LastCheckField(t) == IF Truthy(t) THEN <<"iso", t[1]>> ELSE None

\* The four state fields status() reports, read at one instant.
Snapshot ==
    [current_temp  |-> current_temp,
     alert_active  |-> alert_active,
     last_check    |-> LastCheckField(last_check_time),
     history_count |-> Len(history)]

\* ------------------------------------------------------------- __init__
\* Lines 272-278, after a construction that succeeded.
Init ==
    /\ running = FALSE
    /\ thread = 0
    /\ current_temp = None
    /\ alert_active = FALSE
    /\ last_temp = None
    /\ last_check_time = None
    /\ history = <<>>
    /\ now \in StartTimes
    /\ pc = [t \in Threads |-> "none"]
    /\ temperature = [t \in Threads |-> None]
    /\ alert = [t \in Threads |-> FALSE]
    /\ sent = [t \in Threads |-> <<>>]
    /\ outcome = [t \in Threads |-> "none"]
    /\ cpc = "idle"
    /\ snap = None
    /\ result = None
    /\ log = "none"
    /\ config = TestConfig
    /\ cycles = 0
    /\ stopped = FALSE
    /\ stopRequested = [t \in Threads |-> FALSE]
    /\ inflight = [t \in Threads |-> FALSE]
    /\ resetPending = FALSE
    /\ fresh = [t \in Threads |-> FALSE]
    /\ statusCycle = 0
    /\ cycleStart = Snapshot
    /\ reads = <<>>

\* The caller is about to construct an engine, with any sensor_type and
\* notification_type; the fields of the engine that does not exist yet are
\* shown with the values lines 272-278 give them.
InitNew ==
    /\ running = FALSE
    /\ thread = 0
    /\ current_temp = None
    /\ alert_active = FALSE
    /\ last_temp = None
    /\ last_check_time = None
    /\ history = <<>>
    /\ now \in StartTimes
    /\ pc = [t \in Threads |-> "none"]
    /\ temperature = [t \in Threads |-> None]
    /\ alert = [t \in Threads |-> FALSE]
    /\ sent = [t \in Threads |-> <<>>]
    /\ outcome = [t \in Threads |-> "none"]
    /\ cpc = "new"
    /\ snap = None
    /\ result = None
    /\ log = "none"
    /\ config \in [sensor_type : SensorTypeArgs,
                    notification_type : NotificationTypeArgs]
    /\ cycles = 0
    /\ stopped = FALSE
    /\ stopRequested = [t \in Threads |-> FALSE]
    /\ inflight = [t \in Threads |-> FALSE]
    /\ resetPending = FALSE
    /\ fresh = [t \in Threads |-> FALSE]
    /\ statusCycle = 0
    /\ cycleStart = Snapshot
    /\ reads = <<>>

\* _create_notifier falling back to the webhook notifier for a type it does
\* not know (an `else: return WebhookNotifier(...)` for the raise).
Construct_DefaultNotifier ==
    /\ cpc = "new"
    /\ \/ /\ config.sensor_type \notin SensorTypes
          /\ cpc' = "failed"
          /\ log' = "Unknown sensor type"
          /\ UNCHANGED engine
       \/ /\ config.sensor_type = "mqtt"
          /\ cpc' = "failed"
          /\ log' = "sensor error"
          /\ UNCHANGED engine
       \/ /\ config.sensor_type \in SensorTypes
          /\ cpc' = "idle"
          /\ log' = "none"
          /\ running' = FALSE
          /\ thread' = 0
          /\ current_temp' = None
          /\ alert_active' = FALSE
          /\ last_temp' = None
          /\ last_check_time' = None
          /\ history' = <<>>
    /\ UNCHANGED <<now, loopv, snap, result, config, ghostv, obsv>>

\* Lines 262-278: TemperatureAlert(sensor_config, alert_config).  The sensor
\* is created first: _create_sensor raises ValueError for a type it does not
\* know (line 291), and MQTTSensor() may raise (lines 117-118, 131); then
\* _create_notifier raises ValueError for a type it does not know (line 302);
\* then the fields are set.  When __init__ raises the caller has no engine.
Construct ==
    /\ cpc = "new"
    /\ \/ /\ config.sensor_type \notin SensorTypes
          /\ cpc' = "failed"
          /\ log' = "Unknown sensor type"
          /\ UNCHANGED engine
       \/ /\ config.sensor_type = "mqtt"
          /\ cpc' = "failed"
          /\ log' = "sensor error"
          /\ UNCHANGED engine
       \/ /\ config.sensor_type \in SensorTypes
          /\ config.notification_type \notin NotificationTypes
          /\ cpc' = "failed"
          /\ log' = "Unknown notification type"
          /\ UNCHANGED engine
       \/ /\ config.sensor_type \in SensorTypes
          /\ config.notification_type \in NotificationTypes
          /\ cpc' = "idle"
          /\ log' = "none"
          /\ running' = FALSE
          /\ thread' = 0
          /\ current_temp' = None
          /\ alert_active' = FALSE
          /\ last_temp' = None
          /\ last_check_time' = None
          /\ history' = <<>>
    /\ UNCHANGED <<now, loopv, snap, result, config, ghostv, obsv>>

\* time.time(): the values the next reading of the clock can return; the
\* clock never runs backwards.
ClockValues == {c \in {now + d : d \in Elapsed} : c <= MaxTime}

\* ----------------------------------------------------------- _check_alert
\* Lines 309-313: the rate-of-change test, with its guards.
\* abs(t - last) / (time_diff / 60) > rate_of_change_threshold, time_diff > 0.
RateExceeded(temp, last, lastTime, clock) ==
    /\ Truthy(last)
    /\ Truthy(lastTime)
    /\ clock - lastTime[1] > 0
    /\ Abs(temp - last[1]) * SecondsPerMinute
          > RateThreshold * (clock - lastTime[1])

\* Thread t is inside a call that takes time: the sensor's read (line 334),
\* time.sleep (line 359), or a notifier's send, which line 314 makes when the
\* rate is exceeded and line 345 when `alert` is true.
Blocked(t) ==
    \/ pc[t] \in {"read", "sleep"}
    \/ /\ pc[t] = "rate"
       /\ \E c \in ClockValues :
             RateExceeded(temperature[t][1], last_temp, last_check_time, c)
    \/ /\ pc[t] = "notify"
       /\ alert[t]

\* Wall-clock time can pass: every poll thread that exists is inside a call
\* that takes time, or has ended.
TimePasses == \A t \in Threads : pc[t] \in {"none", "done"} \/ Blocked(t)

\* The threshold check engaging only above the threshold (> for >=).
AlertAfter_StrictAbove(temp, active) ==
    IF temp > Threshold /\ ~active THEN TRUE
    ELSE IF temp < (Threshold - Hysteresis) /\ active THEN FALSE
    ELSE active

\* The threshold check disengaging as soon as the reading is below the
\* threshold (the hysteresis margin forgotten).
AlertAfter_NoHysteresis(temp, active) ==
    IF temp >= Threshold /\ ~active THEN TRUE
    ELSE IF temp < Threshold /\ active THEN FALSE
    ELSE active

\* The threshold check without memory: the alarm is on exactly when the
\* reading is at or above the threshold.
AlertAfter_NoLatch(temp, active) ==
    temp >= Threshold

\* Lines 321-328: self._alert_active after the threshold check.
AlertAfter(temp, active) ==
    IF temp >= Threshold /\ ~active THEN TRUE
    ELSE IF temp < (Threshold - Hysteresis) /\ active THEN FALSE
    ELSE active

\* _check_alert returning True only when the alarm engages (a final
\* `return False` for `return self._alert_active`).
CheckReturn_EdgeOnly(temp, active) ==
    temp >= Threshold /\ ~active

\* Lines 321-328: the value _check_alert returns.
CheckReturn(temp, active) ==
    IF temp >= Threshold /\ ~active THEN TRUE
    ELSE IF temp < (Threshold - Hysteresis) /\ active THEN FALSE
    ELSE active

\* The rate-of-change message sent with alert=False.
Msg_RateNotAlert(kind, temp) ==
    [kind |-> kind, temperature |-> temp, alert |-> (kind # "rate")]

\* notifier.send(message, temperature, alert): the call as the sink sees it.
Msg(kind, temp) == [kind |-> kind, temperature |-> temp, alert |-> TRUE]

\* ---------------------------------------------------------- _monitor_loop
\* The loop going on whatever self._running is (`while True`).
LoopTest_IgnoresFlag(t) ==
    /\ pc[t] = "loop"
    /\ cycles < MaxCycles
    /\ pc' = [pc EXCEPT ![t] = "read"]
    /\ cycles' = cycles + 1
    /\ fresh' = [fresh EXCEPT ![t] = resetPending]
    /\ resetPending' = FALSE
    /\ UNCHANGED <<engine, now, temperature, alert, sent, outcome, callv,
                   stopped, stopRequested, inflight>>

\* Line 332: while self._running.
LoopTest(t) ==
    /\ pc[t] = "loop"
    /\ IF running
       THEN /\ cycles < MaxCycles
            /\ pc' = [pc EXCEPT ![t] = "read"]
            /\ cycles' = cycles + 1
            /\ fresh' = [fresh EXCEPT ![t] = resetPending]
            /\ resetPending' = FALSE
       ELSE /\ pc' = [pc EXCEPT ![t] = "done"]
            /\ UNCHANGED <<cycles, fresh, resetPending>>
    /\ UNCHANGED <<engine, now, temperature, alert, sent, outcome, callv,
                   stopped, stopRequested, inflight>>

\* The while test in an engine nobody asks for its status.
LoopTop(t) ==
    /\ LoopTest(t)
    /\ UNCHANGED obsv

\* The while test of an engine that is left running, for as many cycles as
\* the scenario has readings.
LoopTopScenario(t) ==
    /\ pc[t] = "loop"
    /\ running
    /\ cycles < Len(Scenario)
    /\ pc' = [pc EXCEPT ![t] = "read"]
    /\ cycles' = cycles + 1
    /\ fresh' = [fresh EXCEPT ![t] = resetPending]
    /\ resetPending' = FALSE
    /\ UNCHANGED <<engine, now, temperature, alert, sent, outcome, callv,
                   stopped, stopRequested, inflight, obsv>>

\* The while test in an engine whose caller asks for its status: cycleStart
\* keeps the status fields of the cycle boundary.
LoopTopObserved(t) ==
    /\ LoopTest(t)
    /\ cycleStart' = Snapshot
    /\ UNCHANGED <<statusCycle, reads>>

\* Line 334: the sensor returns a reading.
ReadOk(t) ==
    /\ pc[t] = "read"
    /\ \E v \in Temps : temperature' = [temperature EXCEPT ![t] = Some(v)]
    /\ outcome' = [outcome EXCEPT ![t] = "ok"]
    /\ pc' = [pc EXCEPT ![t] = "store"]
    /\ UNCHANGED <<engine, now, alert, sent, callv, ghostv, obsv>>

\* Line 334 in an engine whose readings are recorded: the sensor returns a
\* reading, and `reads` keeps it in the order the reads returned.
ReadOkRecorded(t) ==
    /\ pc[t] = "read"
    /\ \E v \in Temps :
          /\ temperature' = [temperature EXCEPT ![t] = Some(v)]
          /\ reads' = Append(reads, v)
    /\ outcome' = [outcome EXCEPT ![t] = "ok"]
    /\ pc' = [pc EXCEPT ![t] = "store"]
    /\ UNCHANGED <<engine, now, alert, sent, callv, ghostv, statusCycle,
                   cycleStart>>

\* Line 334: the sensor returns one of the scenario's readings.
ReadScenario(t) ==
    /\ pc[t] = "read"
    /\ \E v \in ScenarioTemps :
          temperature' = [temperature EXCEPT ![t] = Some(v)]
    /\ outcome' = [outcome EXCEPT ![t] = "ok"]
    /\ pc' = [pc EXCEPT ![t] = "store"]
    /\ UNCHANGED <<engine, now, alert, sent, callv, ghostv, obsv>>

\* Line 334: the sensor returns None (a read failure it caught itself).
ReadAbsent(t) ==
    /\ pc[t] = "read"
    /\ temperature' = [temperature EXCEPT ![t] = None]
    /\ outcome' = [outcome EXCEPT ![t] = "absent"]
    /\ pc' = [pc EXCEPT ![t] = "store"]
    /\ fresh' = [fresh EXCEPT ![t] = FALSE]
    /\ UNCHANGED <<engine, now, alert, sent, callv, cycles,
                   stopped, stopRequested, inflight, resetPending, obsv>>

\* The sensor's exception leaving _monitor_loop (no try/except around the
\* cycle): the poll thread dies.
ReadRaises_Uncaught(t) ==
    /\ pc[t] = "read"
    /\ outcome' = [outcome EXCEPT ![t] = "raised"]
    /\ pc' = [pc EXCEPT ![t] = "done"]
    /\ inflight' = [inflight EXCEPT ![t] = FALSE]
    /\ resetPending' = (resetPending \/ fresh[t])
    /\ fresh' = [fresh EXCEPT ![t] = FALSE]
    /\ UNCHANGED <<engine, now, temperature, alert, sent, callv, cycles,
                   stopped, stopRequested, obsv>>

\* Line 334: the sensor raises (FileSensor.read_temperature lets the
\* TypeError of open(None) pass); lines 356-357 catch and log it.
ReadRaises(t) ==
    /\ pc[t] = "read"
    /\ outcome' = [outcome EXCEPT ![t] = "raised"]
    /\ pc' = [pc EXCEPT ![t] = "sleep"]
    /\ inflight' = [inflight EXCEPT ![t] = FALSE]
    /\ resetPending' = (resetPending \/ fresh[t])
    /\ fresh' = [fresh EXCEPT ![t] = FALSE]
    /\ UNCHANGED <<engine, now, temperature, alert, sent, callv, cycles,
                   stopped, stopRequested, obsv>>

\* Lines 336-337: if temperature is not None: self._current_temp = temperature.
Store(t) ==
    /\ pc[t] = "store"
    /\ IF temperature[t] # None
       THEN /\ current_temp' = temperature[t]
            /\ pc' = [pc EXCEPT ![t] = "append"]
       ELSE /\ current_temp' = current_temp
            /\ pc' = [pc EXCEPT ![t] = "update"]
    /\ UNCHANGED <<running, thread, alert_active, last_temp, last_check_time,
                   history, now, temperature, alert, sent, outcome, callv,
                   ghostv, obsv>>

\* Line 338: self._history.append(temperature).
AppendHistory(t) ==
    /\ pc[t] = "append"
    /\ history' = Append(history, temperature[t][1])
    /\ pc' = [pc EXCEPT ![t] = "trim"]
    /\ UNCHANGED <<running, thread, current_temp, alert_active, last_temp,
                   last_check_time, now, temperature, alert, sent, outcome,
                   callv, ghostv, obsv>>

\* Lines 339-340: if len(self._history) > 100: self._history.pop(0).
TrimHistory(t) ==
    /\ pc[t] = "trim"
    /\ history' = IF Len(history) > HistoryCap THEN Tail(history) ELSE history
    /\ pc' = [pc EXCEPT ![t] = "rate"]
    /\ UNCHANGED <<running, thread, current_temp, alert_active, last_temp,
                   last_check_time, now, temperature, alert, sent, outcome,
                   callv, ghostv, obsv>>

\* The rate-of-change check engaging the alarm when the rate is exceeded (a
\* `self._alert_active = True` next to the send of line 314).
RateCheck_EngagesAlarm(t) ==
    /\ pc[t] = "rate"
    /\ now' \in ClockValues
    /\ sent' = [sent EXCEPT ![t] =
                  IF RateExceeded(temperature[t][1], last_temp,
                                  last_check_time, now')
                  THEN Append(@, Msg("rate", temperature[t][1]))
                  ELSE @]
    /\ alert_active' = (alert_active \/
                          RateExceeded(temperature[t][1], last_temp,
                                       last_check_time, now'))
    /\ pc' = [pc EXCEPT ![t] = "check"]
    /\ fresh' = [fresh EXCEPT ![t] = FALSE]
    /\ UNCHANGED <<running, thread, current_temp, last_temp, last_check_time,
                   history, temperature, alert, outcome, callv, cycles,
                   stopped, stopRequested, inflight, resetPending, obsv>>

\* Lines 308-318 of _check_alert: the rate-of-change check, with the clock
\* read of line 310, and its send.
RateCheck(t) ==
    /\ pc[t] = "rate"
    /\ now' \in ClockValues
    /\ sent' = [sent EXCEPT ![t] =
                  IF RateExceeded(temperature[t][1], last_temp,
                                  last_check_time, now')
                  THEN Append(@, Msg("rate", temperature[t][1]))
                  ELSE @]
    /\ pc' = [pc EXCEPT ![t] = "check"]
    /\ fresh' = [fresh EXCEPT ![t] = FALSE]
    /\ UNCHANGED <<engine, temperature, alert, outcome, callv, cycles,
                   stopped, stopRequested, inflight, resetPending, obsv>>

\* Lines 320-328 of _check_alert and line 342: the threshold check with
\* hysteresis; its return value becomes the local `alert`.
ThresholdCheck(t) ==
    /\ pc[t] = "check"
    /\ alert_active' = AlertAfter(temperature[t][1], alert_active)
    /\ alert' = [alert EXCEPT ![t] =
                   CheckReturn(temperature[t][1], alert_active)]
    /\ pc' = [pc EXCEPT ![t] = "notify"]
    /\ UNCHANGED <<running, thread, current_temp, last_temp, last_check_time,
                   history, now, temperature, sent, outcome, callv, ghostv, obsv>>

\* Lines 344-351: if alert: self.notifier.send(threshold message, ...).
Notify(t) ==
    /\ pc[t] = "notify"
    /\ sent' = [sent EXCEPT ![t] =
                  IF alert[t]
                  THEN Append(@, Msg("threshold", temperature[t][1]))
                  ELSE @]
    /\ pc' = [pc EXCEPT ![t] = "update"]
    /\ UNCHANGED <<engine, now, temperature, alert, outcome, callv, ghostv, obsv>>

\* Line 353: self._last_temp = temperature.
UpdateLast(t) ==
    /\ pc[t] = "update"
    /\ last_temp' = temperature[t]
    /\ pc' = [pc EXCEPT ![t] = "stamp"]
    /\ UNCHANGED <<running, thread, current_temp, alert_active,
                   last_check_time, history, now, temperature, alert, sent,
                   outcome, callv, ghostv, obsv>>

\* Line 354: self._last_check_time = time.time(); the cycle is over.
StampTime(t) ==
    /\ pc[t] = "stamp"
    /\ now' \in ClockValues
    /\ last_check_time' = Some(now')
    /\ pc' = [pc EXCEPT ![t] = "sleep"]
    /\ inflight' = [inflight EXCEPT ![t] = FALSE]
    /\ resetPending' = (resetPending \/ outcome[t] = "absent")
    /\ UNCHANGED <<running, thread, current_temp, alert_active, last_temp,
                   history, temperature, alert, sent, outcome, callv,
                   cycles, stopped, stopRequested, fresh, obsv>>

\* Line 359: time.sleep(check_interval) returns.  The locals and the sink
\* calls of the finished cycle are dead from here on; the model clears them.
Sleep(t) ==
    /\ pc[t] = "sleep"
    /\ pc' = [pc EXCEPT ![t] = "loop"]
    /\ temperature' = [temperature EXCEPT ![t] = None]
    /\ alert' = [alert EXCEPT ![t] = FALSE]
    /\ sent' = [sent EXCEPT ![t] = <<>>]
    /\ outcome' = [outcome EXCEPT ![t] = "none"]
    /\ UNCHANGED <<engine, now, callv, ghostv, obsv>>

\* ------------------------------------------------------------------ start
\* Lines 363-365: start() while running logs a warning and returns.
StartWhileRunning ==
    /\ cpc = "idle"
    /\ running
    /\ log' = "already"
    /\ result' = None
    /\ UNCHANGED config
    /\ UNCHANGED <<engine, now, loopv, cpc, snap, ghostv, obsv>>

\* start() without its `if self._running: return`: it creates a poll thread
\* whether the engine runs or not.
Start_NoRunningTest(d) ==
    /\ cpc = "idle"
    /\ thread + 1 \in Threads
    /\ running' = TRUE
    /\ thread' = thread + 1
    /\ pc' = [pc EXCEPT ![thread + 1] = "loop"]
    /\ log' = "started"
    /\ result' = None
    /\ cpc' = IF d > 0 THEN "start_sleep" ELSE "idle"
    /\ stopped' = FALSE
    /\ UNCHANGED stopRequested
    /\ inflight' = [t \in Threads |-> FALSE]
    /\ UNCHANGED config
    /\ UNCHANGED <<current_temp, alert_active, last_temp, last_check_time,
                   history, now, temperature, alert, sent, outcome, snap,
                   cycles, resetPending, fresh, obsv>>

\* Lines 367-375: start(duration) on a stopped engine creates a poll thread;
\* with duration > 0 the caller then sleeps inside start().
Start(d) ==
    /\ cpc = "idle"
    /\ ~running
    /\ thread + 1 \in Threads
    /\ running' = TRUE
    /\ thread' = thread + 1
    /\ pc' = [pc EXCEPT ![thread + 1] = "loop"]
    /\ log' = "started"
    /\ result' = None
    /\ cpc' = IF d > 0 THEN "start_sleep" ELSE "idle"
    /\ stopped' = FALSE
    /\ UNCHANGED stopRequested
    /\ inflight' = [t \in Threads |-> FALSE]
    /\ UNCHANGED config
    /\ UNCHANGED <<current_temp, alert_active, last_temp, last_check_time,
                   history, now, temperature, alert, sent, outcome, snap,
                   cycles, resetPending, fresh, obsv>>

\* Lines 380-381 of stop(): self._running = False, then join if a thread
\* exists.
StopBody ==
    /\ running' = FALSE
    /\ inflight' = [t \in Threads |-> pc[t] \in CyclePcs]
    /\ stopRequested' = [t \in Threads |-> pc[t] # "none"]
    /\ result' = None
    /\ IF thread # 0
       THEN /\ cpc' = IF cpc = "start_sleep" THEN "start_join" ELSE "join"
            /\ UNCHANGED <<log, stopped>>
       ELSE /\ cpc' = "idle"
            /\ log' = "stopped"
            /\ stopped' = TRUE
    /\ UNCHANGED config
    /\ UNCHANGED <<thread, current_temp, alert_active, last_temp,
                   last_check_time, history, now, loopv, snap, cycles,
                   resetPending, fresh, obsv>>

\* stop() called by the caller.
Stop ==
    /\ cpc = "idle"
    /\ StopBody

\* Lines 375-376: the sleep of start(duration > 0) ends, start calls stop().
\* The sleep lasts a second or more, which takes the poll threads to be
\* inside calls that last.
StartWake ==
    /\ cpc = "start_sleep"
    /\ TimePasses
    /\ StopBody

\* Lines 382-383: self._thread.join(timeout=5) returns, because the thread
\* has ended or because the five seconds are over, which takes the poll
\* threads to be inside calls that last; stop() logs and returns, and so
\* does the start(duration > 0) that called it ("start_join").
JoinReturns ==
    /\ cpc \in {"join", "start_join"}
    /\ (pc[thread] = "done" \/ TimePasses)
    /\ cpc' = "idle"
    /\ log' = "stopped"
    /\ stopped' = TRUE
    /\ UNCHANGED stopRequested
    /\ UNCHANGED config
    /\ UNCHANGED <<engine, now, loopv, snap, result, cycles, inflight,
                   resetPending, fresh, obsv>>

\* ----------------------------------------------------------------- status
\* Line 388: status() is called and reads self._running.
StatusRunning ==
    /\ cpc = "idle"
    /\ snap' = [running |-> running]
    /\ result' = None
    /\ statusCycle' = cycles
    /\ cpc' = "st_temp"
    /\ UNCHANGED config
    /\ UNCHANGED <<engine, now, loopv, log, ghostv, cycleStart, reads>>

\* status() reporting 0 for a reading that is absent.
StatusTemp_ZeroForAbsent ==
    /\ cpc = "st_temp"
    /\ snap' = [running |-> snap.running,
                current_temp |-> IF current_temp = None THEN Some(0)
                                 ELSE current_temp]
    /\ cpc' = "st_alert"
    /\ UNCHANGED config
    /\ UNCHANGED <<engine, now, loopv, result, log, ghostv, obsv>>

\* Line 389: reads self._current_temp.
StatusTemp ==
    /\ cpc = "st_temp"
    /\ snap' = [running |-> snap.running, current_temp |-> current_temp]
    /\ cpc' = "st_alert"
    /\ UNCHANGED config
    /\ UNCHANGED <<engine, now, loopv, result, log, ghostv, obsv>>

\* Line 390: reads self._alert_active.
StatusAlert ==
    /\ cpc = "st_alert"
    /\ snap' = [running |-> snap.running, current_temp |-> snap.current_temp,
                alert_active |-> alert_active]
    /\ cpc' = "st_last"
    /\ UNCHANGED config
    /\ UNCHANGED <<engine, now, loopv, result, log, ghostv, obsv>>

\* Line 391: reads self._last_check_time and formats it.
StatusLastCheck ==
    /\ cpc = "st_last"
    /\ snap' = [running |-> snap.running, current_temp |-> snap.current_temp,
                alert_active |-> snap.alert_active,
                last_check |-> LastCheckField(last_check_time)]
    /\ cpc' = "st_hist"
    /\ UNCHANGED config
    /\ UNCHANGED <<engine, now, loopv, result, log, ghostv, obsv>>

\* Lines 392-393: reads len(self._history) and returns the dict.
StatusReturn ==
    /\ cpc = "st_hist"
    /\ result' = Some([running |-> snap.running,
                       current_temp |-> snap.current_temp,
                       alert_active |-> snap.alert_active,
                       last_check |-> snap.last_check,
                       history_count |-> Len(history)])
    /\ snap' = None
    /\ cpc' = "idle"
    /\ UNCHANGED config
    /\ UNCHANGED <<engine, now, loopv, log, ghostv, obsv>>

\* ------------------------------------------------------------------- Next
\* One step of poll thread t after the sensor's read: lines 336-359.
AfterRead(t) ==
    \/ Store(t)
    \/ AppendHistory(t)
    \/ TrimHistory(t)
    \/ RateCheck(t)
    \/ ThresholdCheck(t)
    \/ Notify(t)
    \/ UpdateLast(t)
    \/ StampTime(t)
    \/ Sleep(t)

\* One step of poll thread t inside a cycle, or its sleep.
CycleStep(t) ==
    \/ ReadOk(t)
    \/ ReadAbsent(t)
    \/ ReadRaises(t)
    \/ AfterRead(t)

\* The engine with its caller starting and stopping it.
Next ==
    \/ StartWhileRunning
    \/ \E d \in Durations : Start(d)
    \/ Stop
    \/ StartWake
    \/ JoinReturns
    \/ \E t \in Threads : LoopTop(t) \/ CycleStep(t)

Spec == Init /\ [][Next]_vars

\* An engine started once and never stopped, with the caller asking for its
\* status while it polls.
NextStatus ==
    \/ Start(0)
    \/ StatusRunning
    \/ StatusTemp
    \/ StatusAlert
    \/ StatusLastCheck
    \/ StatusReturn
    \/ \E t \in Threads : LoopTopObserved(t) \/ CycleStep(t)

SpecStatus == Init /\ [][NextStatus]_vars

\* A running engine whose poll loop has completed HistoryCap - 1 cycles, each
\* with the same reading v: history holds HistoryCap - 1 entries, the alarm
\* is engaged iff v reaches the threshold, and the thread is at the while
\* test.
InitFull ==
    \E v \in Temps :
       /\ running = TRUE
       /\ thread = 1
       /\ current_temp = Some(v)
       /\ alert_active = (v >= Threshold)
       /\ last_temp = Some(v)
       /\ now \in StartTimes
       /\ last_check_time = Some(now)
       /\ history = [i \in 1..(HistoryCap - 1) |-> v]
       /\ pc = [t \in Threads |-> IF t = 1 THEN "loop" ELSE "none"]
       /\ temperature = [t \in Threads |-> None]
       /\ alert = [t \in Threads |-> FALSE]
       /\ sent = [t \in Threads |-> <<>>]
       /\ outcome = [t \in Threads |-> "none"]
       /\ cpc = "idle"
       /\ snap = None
       /\ result = None
       /\ log = "started"
       /\ config = TestConfig
       /\ cycles = 0
       /\ stopped = FALSE
       /\ stopRequested = [t \in Threads |-> FALSE]
       /\ inflight = [t \in Threads |-> FALSE]
       /\ resetPending = FALSE
       /\ fresh = [t \in Threads |-> FALSE]
       /\ statusCycle = 0
       /\ cycleStart = Snapshot
       /\ reads = history

\* That engine polling on, with the caller asking for its status.
NextFull ==
    \/ StatusRunning
    \/ StatusTemp
    \/ StatusAlert
    \/ StatusLastCheck
    \/ StatusReturn
    \/ \E t \in Threads : LoopTopObserved(t) \/ CycleStep(t)

SpecFull == InitFull /\ [][NextFull]_vars

\* start() on an engine that was never started.
StartFirst(d) ==
    /\ thread = 0
    /\ Start(d)

\* An engine started once and left running, polling a sensor that returns
\* the scenario's readings in any order and never fails.
NextScenario ==
    \/ StartFirst(0)
    \/ \E t \in Threads :
          LoopTopScenario(t) \/ ReadScenario(t) \/ AfterRead(t)

SpecScenario == Init /\ [][NextScenario]_vars

\* An engine started once and left running, polling a sensor that returns
\* the scenario's readings in any order, returns None or raises.
NextSink ==
    \/ StartFirst(0)
    \/ \E t \in Threads :
          \/ LoopTopScenario(t)
          \/ ReadScenario(t)
          \/ ReadAbsent(t)
          \/ ReadRaises(t)
          \/ AfterRead(t)

SpecSink == Init /\ [][NextSink]_vars

\* One step of poll thread t inside a cycle, or its sleep, with its readings
\* recorded.
CycleStepRecorded(t) ==
    \/ ReadOkRecorded(t)
    \/ ReadAbsent(t)
    \/ ReadRaises(t)
    \/ AfterRead(t)

\* The engine with its caller starting and stopping it, and its readings
\* recorded.
NextHistory ==
    \/ StartWhileRunning
    \/ \E d \in Durations : Start(d)
    \/ Stop
    \/ StartWake
    \/ JoinReturns
    \/ \E t \in Threads : LoopTop(t) \/ CycleStepRecorded(t)

SpecHistory == Init /\ [][NextHistory]_vars

\* The engine of InitFull polling on, with its readings recorded.
NextHistoryFull == \E t \in Threads : LoopTop(t) \/ CycleStepRecorded(t)

SpecHistoryFull == InitFull /\ [][NextHistoryFull]_vars

\* The scheduler runs every poll thread that can take a step: a sensor read,
\* a sink call and time.sleep all return, and a runnable thread gets the CPU.
PollFairness == \A t \in Threads : WF_vars(LoopTop(t) \/ CycleStep(t))

\* The engine under that scheduling.
SpecFair == Init /\ [][Next]_vars /\ PollFairness

\* One run of the engine: started once, polled, stopped.
NextRun ==
    \/ StartWhileRunning
    \/ \E d \in Durations : StartFirst(d)
    \/ Stop
    \/ StartWake
    \/ JoinReturns
    \/ \E t \in Threads : LoopTop(t) \/ CycleStep(t)

\* One run of the engine under that scheduling.
SpecRunFair == Init /\ [][NextRun]_vars /\ PollFairness

\* An engine constructed with any configuration, and then run once.
NextConstruct ==
    \/ Construct
    \/ NextRun

SpecConstruct == InitNew /\ [][NextConstruct]_vars


\* ================================================================ claims
\* Thread t moves from position `from` to position `to` in this step.
Moves(t, from, to) == pc[t] = from /\ pc'[t] = to

\* The sink calls of kind k among the calls cs of a cycle.
CallsOfKind(cs, k) == SelectSeq(cs, LAMBDA m : m.kind = k)

\* The dead band of the hysteresis.
InDeadBand(r) == r >= Threshold - Hysteresis /\ r < Threshold

\* The alarm state `after` that the reference function gives for reading r
\* and the alarm state `prior`.
Classified(r, prior, after) ==
    /\ (r >= Threshold /\ ~prior) => after
    /\ (r < Threshold - Hysteresis /\ prior) => ~after
    /\ ~(r >= Threshold /\ ~prior) /\ ~(r < Threshold - Hysteresis /\ prior)
          => (after <=> prior)
    /\ InDeadBand(r) => (after <=> prior)

\* C1: whatever the reading and the prior alarm state, the alarm state after
\* the threshold check of _check_alert is the reference function's: engaged
\* by a reading >= threshold while off, released by a reading below
\* threshold - hysteresis while on, unchanged otherwise (so unchanged in the
\* dead band).
C1_ClassifyIsReference ==
    [][\A t \in Threads :
          Moves(t, "check", "notify")
             => Classified(temperature[t][1], alert_active, alert_active')]_vars

\* C1 witness: a dead-band reading has been classified and the alarm is
\* still on.
C1_Witness ==
    \E t \in Threads :
       /\ pc[t] = "notify"
       /\ InDeadBand(temperature[t][1])
       /\ alert_active
       /\ alert[t]

\* C2: the alarm goes from off to on only in the classification step of a
\* cycle whose reading is >= threshold, from on to off only in that of a
\* cycle whose reading is < threshold - hysteresis; no other step of any
\* cycle (failed reads and raising reads included) changes it.
C2_AlarmTransitions ==
    [][alert_active' # alert_active
          => \E t \in Threads :
                /\ Moves(t, "check", "notify")
                /\ outcome[t] = "ok"
                /\ alert_active' => temperature[t][1] >= Threshold
                /\ ~alert_active'
                      => temperature[t][1] < Threshold - Hysteresis]_vars

\* C2 witness: a cycle whose read failed has ended with the alarm still on.
C2_Witness ==
    \E t \in Threads :
       /\ pc[t] = "sleep"
       /\ outcome[t] \in {"absent", "raised"}
       /\ alert_active

\* C3: poll cycles never overlap: at most one poll thread is inside a cycle
\* at any time, whatever start/stop calls the caller makes.
C3_NoOverlap ==
    Cardinality({t \in Threads : pc[t] \in CyclePcs}) <= 1

\* C4: once stop() has returned (and until start() is called again) no poll
\* cycle begins: a thread inside a cycle, reading the sensor or calling the
\* sink, is finishing the cycle that was in flight when stop() was called.
C4_NoCycleAfterStop ==
    stopped => \A t \in Threads : pc[t] \in CyclePcs => inflight[t]

\* C4 witness: stop() has returned by its join timeout while a cycle that
\* was in flight is still classifying.
C4_Witness ==
    /\ stopped
    /\ cpc = "idle"
    /\ \E t \in Threads : pc[t] \in {"rate", "check", "notify"} /\ inflight[t]

\* The state fields of a dict status() returned.
StatusFields(r) ==
    [current_temp  |-> r.current_temp,
     alert_active  |-> r.alert_active,
     last_check    |-> r.last_check,
     history_count |-> r.history_count]

\* C5: a status() call made since the latest cycle began reports the state
\* fields of one cycle boundary, the one before that cycle or the one after
\* it, never a mixture (checked once the cycle is over).
C5_ConsistentSnapshot ==
    (/\ cpc = "idle"
     /\ result # None
     /\ statusCycle = cycles
     /\ \A t \in Threads : pc[t] \notin CyclePcs)
       => StatusFields(result[1]) \in {cycleStart, Snapshot}

\* C6: when the previous cycle left a lastReading (any number) and a
\* lastReadingTime and time has passed, the rate-exceeded notification is
\* sent iff |reading - lastReading| / elapsedMinutes > rateThreshold.
C6_RateIff ==
    [][\A t \in Threads :
          (/\ Moves(t, "rate", "check")
           /\ last_temp # None
           /\ last_check_time # None
           /\ now' - last_check_time[1] > 0)
             => (CallsOfKind(sent'[t], "rate") # <<>>
                   <=> Abs(temperature[t][1] - last_temp[1]) * SecondsPerMinute
                          > RateThreshold * (now' - last_check_time[1]))]_vars

\* C7: level-triggered threshold notification: the value classification
\* yields is the alarm state it leaves, and the cycle calls the sink with the
\* threshold message, the cycle's reading and alert=true exactly when that
\* state is on (newly engaged or still on, dead-band readings included).
C7_LevelTriggered ==
    [][\A t \in Threads :
          /\ Moves(t, "check", "notify") => (alert'[t] <=> alert_active')
          /\ Moves(t, "notify", "update")
                => CallsOfKind(sent'[t], "threshold")
                      = IF alert[t]
                        THEN <<[kind |-> "threshold",
                                temperature |-> temperature[t][1],
                                alert |-> TRUE]>>
                        ELSE <<>>]_vars

\* C7 witness: a cycle with a dead-band reading, below the threshold, has
\* sent the threshold notification because the alarm is still on.
C7_Witness ==
    \E t \in Threads :
       /\ pc[t] = "update"
       /\ outcome[t] = "ok"
       /\ InDeadBand(temperature[t][1])
       /\ alert[t]
       /\ CallsOfKind(sent[t], "threshold") # <<>>

\* C8: a cycle whose read is absent does not raise and leaves history
\* alone, and the first cycle with a reading that begins after it makes no
\* rate check and sends no rate-exceeded notification.
C8_AbsentResetsBaseline ==
    [][\A t \in Threads :
          /\ (pc[t] = "store" /\ outcome[t] = "absent" /\ pc'[t] # pc[t])
                => (pc'[t] = "update" /\ history' = history)
          /\ (Moves(t, "rate", "check") /\ fresh[t])
                => /\ ~(Truthy(last_temp) /\ Truthy(last_check_time))
                   /\ sent'[t] = <<>>]_vars

\* The reading of the cycle thread t is ending: absent when its read raised.
CycleReading(t) == IF outcome'[t] = "raised" THEN None ELSE temperature[t]

\* C9: when a cycle ends, however its read went, lastReading is that cycle's
\* reading and lastReadingTime is that cycle's time.
C9_BaselineAlwaysUpdated ==
    [][\A t \in Threads :
          (pc[t] \in CyclePcs /\ pc'[t] = "sleep")
             => /\ last_temp' = CycleReading(t)
                /\ last_check_time' = Some(now')]_vars

\* C10: when a cycle whose read failed ends, currentReading is absent, so
\* status() reports no current temperature.
C10_CurrentAbsentAfterFailure ==
    [][\A t \in Threads :
          (Moves(t, "stamp", "sleep") /\ outcome[t] = "absent")
             => /\ current_temp' = None
                /\ Snapshot'.current_temp = None]_vars

\* C11: an exception raised in a poll cycle never ends the poll loop: the
\* cycle goes to the sleep, a thread leaves the loop only at the while test
\* with the running flag false, and while the engine is running the sleep is
\* followed by the next cycle (as long as the model lets cycles begin).
C11_LoopSurvivesException ==
    /\ [][\A t \in Threads :
             /\ (pc[t] = "read" /\ outcome'[t] = "raised") => pc'[t] = "sleep"
             /\ (pc[t] # "done" /\ pc'[t] = "done")
                   => (pc[t] = "loop" /\ ~running)]_vars
    /\ \A t \in Threads :
          (pc[t] = "sleep" /\ outcome[t] = "raised")
             ~> (pc[t] = "read" \/ ~running \/ cycles = MaxCycles)

\* C11 witness: the cycle after one whose read raised is under way in a
\* running engine (a raised read is the one way to end a cycle with no
\* lastReadingTime).
C11_Witness ==
    \E t \in Threads :
       /\ pc[t] = "store"
       /\ running
       /\ cycles >= 2
       /\ thread = 1
       /\ last_check_time = None

\* C12: history never holds more than 100 entries, in the states between
\* two steps of a poll cycle too: no status() call returns a history_count
\* above 100.
C12_HistoryBounded ==
    result # None => result[1].history_count <= HistoryCap

\* The ClassificationState: alarmActive, lastReading, lastReadingTime,
\* currentReading and history.
ClassificationState ==
    <<alert_active, last_temp, last_check_time, current_temp, history>>

\* C13: start() on a running engine is a no-op: a poll loop comes to exist
\* only by a step taken while the running flag is false, and the start()
\* that logs the warning returns at once with the running flag, the thread
\* and the ClassificationState as they were.
C13_StartIdempotent ==
    [][/\ (\E t \in Threads : pc[t] = "none" /\ pc'[t] # "none") => ~running
       /\ (cpc = "idle" /\ running /\ log' # log)
             => /\ log' = "already"
                /\ cpc' = "idle"
                /\ running'
                /\ thread' = thread
                /\ pc' = pc
                /\ ClassificationState' = ClassificationState]_vars

\* C13 witness: start() has just logged its warning on an engine whose poll
\* loop is inside a cycle, the alarm engaged.
C13_Witness ==
    /\ log = "already"
    /\ cpc = "idle"
    /\ running
    /\ alert_active
    /\ pc[thread] \in CyclePcs
    /\ \A t \in Threads : t # thread => pc[t] = "none"

\* C14: start(duration > 0) on a stopped engine runs the first poll cycle
\* with no sleep before it and stops the engine before it returns: when its
\* own sleep ends the poll thread has read the sensor, and when it returns
\* the running flag is false and a reading >= threshold that the Source
\* returned has engaged the alarm.  start(0) returns with the running flag
\* true, and only a stop() call clears the flag.
C14_TimedStart ==
    [][/\ (cpc = "start_sleep" /\ cpc' = "start_join")
             => \/ pc[thread] \in CyclePcs
                \/ pc[thread] = "sleep" /\ outcome[thread] # "none"
       /\ (cpc = "start_join" /\ cpc' = "idle")
             => /\ ~running'
                /\ (current_temp # None /\ current_temp[1] >= Threshold)
                      => alert_active'
       /\ (cpc = "idle" /\ thread' # thread /\ cpc' = "idle") => running'
       /\ (running /\ ~running')
             => (cpc \in {"idle", "start_sleep"} /\ cpc' # "start_sleep")]_vars

\* C15: once stop() has been called the poll loop exits after finishing at
\* most its current cycle, whatever the caller does next (a later start()
\* included): a poll thread that stop() was called on never passes the
\* while test into another cycle.
C15_LoopExitsAfterStop ==
    [][\A t \in Threads :
          (stopRequested[t] /\ pc[t] = "loop") => pc'[t] # "read"]_vars

\* Thread t takes a step of _check_alert (the rate check or the threshold
\* check).
InCheckAlert(t) == pc[t] \in {"rate", "check"} /\ pc'[t] # pc[t]

\* C16: classification (_check_alert) never calls the sink: a step of it
\* changes nothing of the engine but alarmActive and makes no sink call, so
\* every sink call of a cycle is made by _monitor_loop after _check_alert
\* has returned.
C16_ClassifyCallsNoSink ==
    [][\A t \in Threads :
          InCheckAlert(t)
             => /\ sent'[t] = sent[t]
                /\ <<running, thread, current_temp, last_temp,
                      last_check_time, history>>'
                      = <<running, thread, current_temp, last_temp,
                          last_check_time, history>>]_vars

\* The alarm state that reading r and the alarm state `prior` determine.
AlarmOf(r, prior) ==
    r >= Threshold \/ (prior /\ r >= Threshold - Hysteresis)

\* C17: the rate-of-change check does not affect the alarm: the rate check
\* leaves alarmActive as it was whether or not it sends the rate-exceeded
\* message, and the alarm state after classification is a function of the
\* reading and the prior alarm state alone, whatever lastReading and
\* lastReadingTime are.
C17_RateDoesNotAffectAlarm ==
    [][\A t \in Threads :
          /\ Moves(t, "rate", "check") => alert_active' = alert_active
          /\ Moves(t, "check", "notify")
                => (alert_active'
                      <=> AlarmOf(temperature[t][1], alert_active))]_vars

\* C17 witness: a cycle has sent the rate-exceeded message and has been
\* classified, and the alarm stays off.
C17_Witness ==
    \E t \in Threads :
       /\ pc[t] = "notify"
       /\ CallsOfKind(sent[t], "rate") # <<>>
       /\ temperature[t][1] < Threshold
       /\ ~alert_active
       /\ ~alert[t]

\* The alarm states the scenario is to leave after its cycles.
ScenarioAlarms == <<FALSE, TRUE, TRUE, FALSE>>

\* C18: with threshold 30 and hysteresis 1, an engine that starts with the
\* alarm off and polls the readings 28, 31, 29.5, 28.9 in consecutive
\* cycles has the alarm off, on, on, off after the respective cycles.
C18_HysteresisScenario ==
    \A k \in 1..Len(Scenario) :
       (/\ history = SubSeq(Scenario, 1, k)
        /\ \A t \in Threads : pc[t] \in {"none", "sleep", "loop"})
          => alert_active = ScenarioAlarms[k]

\* C18 witness: the four readings of the scenario have been polled in its
\* order, and the fourth cycle has ended with the alarm released.
C18_Witness ==
    /\ history = Scenario
    /\ pc[1] = "sleep"
    /\ ~alert_active

\* C19: the ClassificationState is discarded on stop: a start() that sets
\* the running flag begins from the initial state, alarm off, no
\* lastReading and lastReadingTime, no currentReading and an empty history
\* (stated for a start() that finds every earlier poll loop ended).
C19_StateDiscardedOnStop ==
    [][(/\ ~running
        /\ running'
        /\ \A t \in Threads : pc[t] \in {"none", "done"})
          => ClassificationState' = <<FALSE, None, None, None, <<>> >>]_vars

\* The engine is being constructed with a sensor type or a notification
\* type that the factories do not know.
UnknownType ==
    \/ config.sensor_type \notin SensorTypes
    \/ config.notification_type \notin NotificationTypes

\* C20: an unknown sensor type or notification type makes construction fail
\* before any poll loop exists: the constructor raises, the caller never
\* holds an engine, so no poll thread, sensor read or sink call ever occurs
\* for that configuration; and the failure occurs in the constructor only,
\* never once an engine exists.
C20_UnknownTypeFailsConstruction ==
    /\ [](UnknownType
            => /\ cpc \in {"new", "failed"}
               /\ ~running
               /\ thread = 0
               /\ cycles = 0
               /\ \A t \in Threads :
                     pc[t] = "none" /\ outcome[t] = "none" /\ sent[t] = <<>>)
    /\ [][/\ (cpc = "new" /\ cpc' # "new" /\ UnknownType)
                => cpc' = "failed"
          /\ (cpc' = "failed") => (cpc \in {"new", "failed"})]_vars

\* C20 witness: construction with a known sensor type and an unknown
\* notification type has failed with the notifier factory's error.
C20_Witness ==
    /\ cpc = "failed"
    /\ config.sensor_type \in SensorTypes
    /\ config.notification_type \notin NotificationTypes
    /\ log = "Unknown notification type"

\* The caller's positions inside status().
StatusPcs == {"st_temp", "st_alert", "st_last", "st_hist"}

\* The step is one of the statements of status().
StatusStep ==
    /\ cpc' # cpc
    /\ (cpc \in StatusPcs \/ cpc' \in StatusPcs)

\* C21: an engine that was constructed and never started reports, through
\* status(), running false, current_temp absent, alert_active false,
\* last_check absent and history_count 0; and no statement of status()
\* changes the engine's fields, its threads, its configuration or its log.
C21_FreshStatus ==
    /\ []((thread = 0 /\ result # None)
            => result[1] = [running |-> FALSE,
                            current_temp |-> None,
                            alert_active |-> FALSE,
                            last_check |-> None,
                            history_count |-> 0])
    /\ [][StatusStep => UNCHANGED <<engine, now, loopv, log, config>>]_vars

\* C21 witness: status() has returned on an engine that was never started.
C21_Witness ==
    /\ thread = 0
    /\ ~running
    /\ cpc = "idle"
    /\ result # None

\* The smaller of two numbers.
Min(a, b) == IF a <= b THEN a ELSE b

\* The last n elements of a sequence, in their order.
LastN(s, n) == SubSeq(s, Len(s) - n + 1, Len(s))

\* No poll thread is inside a cycle.
AtCycleBoundary == \A t \in Threads : pc[t] \notin CyclePcs

\* C22: at every cycle boundary, after n successful reads in total, history
\* equals the last min(n, HistoryCap) successful readings in the order they
\* were read; reads that failed contribute nothing.
C22_HistoryIsLastReads ==
    AtCycleBoundary
       => history = LastN(reads, Min(Len(reads), HistoryCap))

\* A Sink call of kind k with alert=true and reading r.
AlertCall(k, r) == [kind |-> k, temperature |-> r, alert |-> TRUE]

\* The sequences of Sink calls a cycle with reading r may have made: at most
\* a rate-exceeded call followed by at most a threshold-exceeded call.
PermittedCalls(r) ==
    {<<>>,
     <<AlertCall("rate", r)>>,
     <<AlertCall("threshold", r)>>,
     <<AlertCall("rate", r), AlertCall("threshold", r)>>}

\* C23: a poll cycle makes at most two Sink calls, each with alert=true and
\* that cycle's reading, the rate-exceeded call (if any) before the
\* threshold-exceeded call (if any); a cycle whose read failed makes no Sink
\* call; the rate-exceeded call is made before the alarm is updated for the
\* cycle and the threshold-exceeded call after it, and no other step of the
\* cycle makes a Sink call.
C23_SinkCallsOfACycle ==
    /\ [](\A t \in Threads :
             /\ (outcome[t] \in {"absent", "raised"}) => (sent[t] = <<>>)
             /\ (temperature[t] = None) => (sent[t] = <<>>)
             /\ (temperature[t] # None)
                   => (sent[t] \in PermittedCalls(temperature[t][1])))
    /\ [][\A t \in Threads :
             /\ (CallsOfKind(sent'[t], "rate") # CallsOfKind(sent[t], "rate")
                   /\ pc[t] # "sleep")
                   => Moves(t, "rate", "check")
             /\ (CallsOfKind(sent'[t], "threshold")
                      # CallsOfKind(sent[t], "threshold")
                   /\ pc[t] # "sleep")
                   => Moves(t, "notify", "update")]_vars

\* C23 witness: a cycle has made both calls, the rate-exceeded one first,
\* and is about to store its reading as the baseline.
C23_Witness ==
    \E t \in Threads :
       /\ pc[t] = "update"
       /\ Len(sent[t]) = 2
       /\ sent[t][1].kind = "rate"
       /\ sent[t][2].kind = "threshold"

====
